---- MODULE Spec2Model ----
(***************************************************************************)
(* A model of monitor.py: one run of main() after another over a fixed     *)
(* list of sources, the state file on disk, the web the pages are fetched  *)
(* from, and the Telegram channel the summary is sent to.                  *)
(***************************************************************************)
EXTENDS Integers, Sequences, FiniteSets, TLC

(***************************************************************************)
(* Bounds of the model.                                                    *)
(***************************************************************************)
\* main() is run at most this many times, one run after the other
MaxRuns == 2
\* sources.json lists between one and this many sources
MaxSources == 2
\* the source pages used to exercise candidate selection list at most this many links
MaxLinks == 3
\* the longest source pages have this many links
LongLen == 11
\* a detail page yields at most this many dates
MaxDates == 2
\* the calendar days of the model are 1..MaxDay
MaxDay == 3
\* the longest list of report items handed to the summary
MaxItems == 21

(***************************************************************************)
(* Program constants.                                                      *)
(***************************************************************************)
\* a faulty variant, which C9 excludes: candidates[:9]
DetailCapNine == 8 + 1

\* candidates[:8]
DetailCap == 8
\* links[:10]
FallbackCap == 10
\* new_items[:20]
DigestCap == 20

Min(a, b) == IF a < b THEN a ELSE b

\* every sequence over S of length at most n
SeqsUpTo(S, n) == UNION {[1..k -> S] : k \in 0..n}

\* s[:n]
Take(s, n) == SubSeq(s, 1, Min(n, Len(s)))

(***************************************************************************)
(* Links.  The state names a link (text, href) by a short id; LinkText and *)
(* LinkHref give the characters of its two strings, on which lower() and   *)
(* the `in' test work.                                                     *)
(***************************************************************************)
Links == {"K1", "K2", "P1", "P2"}

\* "EDITAL", "Abrir", "Home", "Mapa"
LinkText(l) ==
    CASE l = "K1" -> <<"E","D","I","T","A","L">>
      [] l = "K2" -> <<"A","b","r","i","r">>
      [] l = "P1" -> <<"H","o","m","e">>
      [] l = "P2" -> <<"M","a","p","a">>

\* "http://a/1", "http://a/Edital", "http://a/2", "http://a/3"
LinkHref(l) ==
    CASE l = "K1" -> <<"h","t","t","p",":","/","/","a","/","1">>
      [] l = "K2" -> <<"h","t","t","p",":","/","/","a","/","E","d","i","t","a","l">>
      [] l = "P1" -> <<"h","t","t","p",":","/","/","a","/","2">>
      [] l = "P2" -> <<"h","t","t","p",":","/","/","a","/","3">>

UpperCase == <<"A","B","C","D","E","F","G","H","I","J","K","L","M","N","O","P",
               "Q","R","S","T","U","V","W","X","Y","Z","Ç","Ã","Õ">>
LowerCase == <<"a","b","c","d","e","f","g","h","i","j","k","l","m","n","o","p",
               "q","r","s","t","u","v","w","x","y","z","ç","ã","õ">>

\* str.lower() on one character
LowerChar(c) ==
    IF \E i \in 1..Len(UpperCase) : UpperCase[i] = c
    THEN LowerCase[CHOOSE i \in 1..Len(UpperCase) : UpperCase[i] = c]
    ELSE c

\* str.lower()
lower(cs) == [i \in 1..Len(cs) |-> LowerChar(cs[i])]

\* k in cs
Contains(cs, k) ==
    \E i \in 1..(Len(cs) - Len(k) + 1) : SubSeq(cs, i, i + Len(k) - 1) = k

keywords ==
    { <<"e","d","i","t","a","l">>,
      <<"c","h","a","m","a","m","e","n","t","o">>,
      <<"s","e","l","e","ç","ã","o">>,
      <<"o","p","o","r","t","u","n","i","d","a","d","e">>,
      <<"r","e","t","i","f","i","c","a","ç","ã","o">>,
      <<"p","r","o","r","r","o","g","a","ç","ã","o">>,
      <<"i","n","s","c","r","i","ç","ã","o">>,
      <<"i","n","s","c","r","i","ç","õ","e","s">> }

\* a faulty variant, which C6 excludes: the keywords are looked for as written,
\* without lower()
MatchesCaseSensitive(l) ==
    \/ \E k \in keywords : Contains(LinkText(l), k)
    \/ \E k \in keywords : Contains(LinkHref(l), k)

\* any(k in t.lower() for k in keywords) or any(k in h.lower() for k in keywords)
Matches(l) ==
    \/ \E k \in keywords : Contains(lower(LinkText(l)), k)
    \/ \E k \in keywords : Contains(lower(LinkHref(l)), k)

\* the links the condition of the list comprehension keeps
KeywordLinks == {l \in Links : Matches(l)}

IsCandidate(l) == l \in KeywordLinks

\* the candidates of a page's links: the keyword matches, else links[:10]
SelectCandidates(links) ==
    LET filtered == SelectSeq(links, IsCandidate)
    IN  IF filtered = <<>> THEN Take(links, FallbackCap) ELSE filtered

(***************************************************************************)
(* Pages.  A source page is named by the list `base' of links its html     *)
(* repeats and the number n of <a> elements it holds.                      *)
(***************************************************************************)
RECURSIVE Cycle(_, _)
\* the first n links of the endless repetition of the list c
Cycle(c, n) == IF n = 0 THEN <<>> ELSE Append(Cycle(c, n - 1), c[((n - 1) % Len(c)) + 1])

Page(base, n) == [base |-> base, n |-> n]

\* extract_links(html, url)
extract_links(page) == Cycle(page.base, page.n)

(***************************************************************************)
(* Fingerprints.  SHA-256 is modelled as collision-free: the digest of x   *)
(* is x under a tag, equal for equal inputs and for no others.             *)
(***************************************************************************)
None == <<>>

sha(x) == <<"sha256", x>>

\* json.dumps(candidates): one text per list of links
json_dumps(c) == <<"json", c>>

(***************************************************************************)
(* Deadlines.  A date is a day number.                                     *)
(***************************************************************************)
RECURSIVE MaxOf(_)
MaxOf(ds) ==
    IF Len(ds) = 1 THEN ds[1]
    ELSE LET m == MaxOf(Tail(ds)) IN IF ds[1] > m THEN ds[1] ELSE m

\* pick_deadline, on the dates parse_deadlines found: <<d>> or None
pick_deadline(dates) == IF dates = <<>> THEN None ELSE <<MaxOf(dates)>>

\* a faulty variant, which C5 excludes: a deadline of today counts as expired
is_expired_today(deadline, now) == deadline <= now

\* is_expired, with now the date datetime.now() gives
is_expired(deadline, now) == deadline < now

(***************************************************************************)
(* Data.                                                                   *)
(***************************************************************************)
\* the URLs sources.json may name
Urls == {"u1", "u2"}

\* sources.json: the sources in order, the first one at "u1"; a source's name
\* is its position
SourceConfigs ==
    { [i \in 1..Len(us) |-> [name |-> i, url |-> us[i]]] :
        us \in {c \in SeqsUpTo(Urls, MaxSources) : c # <<>> /\ c[1] = "u1"} }

\* the dates parse_deadlines finds in a detail page
Days == 1..MaxDay
DateLists == SeqsUpTo(Days, MaxDates)

\* seen.get(url, {}) of a URL with no record: every .get gives None
NoRec == [fingerprint |-> None, candidates_sig |-> None, checked_at |-> 0]

Rec(m, u) == IF u \in DOMAIN m THEN m[u] ELSE NoRec

\* a faulty variant, which C8 excludes: the mapping is replaced by the one record
PutAlone(m, u, r) == [x \in {u} |-> r]

\* seen[url] = {...}
Put(m, u, r) == [x \in (DOMAIN m) \cup {u} |-> IF x = u THEN r ELSE m[x]]

\* (name, "Erro ao verificar fonte", f"{url} | {type(e).__name__}: {e}")
SourceErrorItem(s, e) ==
    [src |-> s.name, kind |-> "source_error", link |-> s.url, deadline |-> None,
     error |-> e]

\* (name, f"{t} (erro ao ler detalhes)", f"{h} | {type(e).__name__}: {e}")
DetailErrorItem(s, l, e) ==
    [src |-> s.name, kind |-> "detail_error", link |-> l, deadline |-> None,
     error |-> e]

\* (name, f"{t} (prazo: ...)", h) or (name, f"{t} (sem prazo detectado)", h)
DetailItem(s, l, deadline) ==
    [src |-> s.name, kind |-> IF deadline = None THEN "no_deadline" ELSE "deadline",
     link |-> l, deadline |-> deadline, error |-> ""]

\* a faulty variant, which C7 excludes: the digest lists every report item
SummaryOfAll(items, skipped) ==
    LET extra == IF skipped # 0 THEN <<skipped>> ELSE <<>>
    IN  IF items # <<>>
        THEN [kind |-> "digest", lines |-> items, expired |-> extra]
        ELSE [kind |-> "heartbeat", lines |-> <<>>, expired |-> extra]

\* the text handed to tg_send
Summary(items, skipped) ==
    LET extra == IF skipped # 0 THEN <<skipped>> ELSE <<>>
    IN  IF items # <<>>
        THEN [kind |-> "digest", lines |-> Take(items, DigestCap), expired |-> extra]
        ELSE [kind |-> "heartbeat", lines |-> <<>>, expired |-> extra]

(***************************************************************************)
(* The environment of a behaviour: what a fetch may return (the source     *)
(* pages, the errors of a source fetch, per link the date lists and the    *)
(* errors of its detail page) and the dates the clock may show.            *)
(***************************************************************************)
\* short pages that change from fetch to fetch; detail pages without dates
RecordsWeb ==
    [pages |-> {Page(<<"K1">>, 0), Page(<<"K1">>, 1), Page(<<"P1", "K1">>, 2)},
     pageErrors |-> {"HTTPError"},
     details |-> [l \in Links |-> {<<>>}],
     detailErrors |-> [l \in Links |-> {}],
     days |-> {1}]

\* one page with one candidate, or none; detail pages of every kind, on any day
DetailsWeb ==
    [pages |-> {Page(<<"P1", "K2">>, 2)},
     pageErrors |-> {"Timeout"},
     details |-> [l \in Links |-> DateLists],
     detailErrors |-> [l \in Links |-> {"HTTPError"}],
     days |-> Days]

\* long pages; each detail page always the same, on one day
LongWeb ==
    [pages |-> {Page(<<"K1", "K2">>, LongLen), Page(<<"P1", "P2">>, LongLen)},
     pageErrors |-> {},
     details |-> [l \in Links |-> IF l = "K1" THEN {<<1, MaxDay>>}
                                  ELSE IF l = "P1" THEN {<<1>>}
                                  ELSE IF l = "P2" THEN {<<>>} ELSE {}],
     detailErrors |-> [l \in Links |-> IF l = "K2" THEN {"Timeout"} ELSE {}],
     days |-> {2}]

Webs == {RecordsWeb, DetailsWeb, LongWeb}

\* pages of every short list of links, and long ones; detail pages without dates
SelectWeb ==
    [pages |-> {Page(b, Len(b)) : b \in SeqsUpTo(Links, MaxLinks) \ {<<>>}}
               \cup {Page(<<"K1">>, 0)}
               \cup {Page(b, n) : b \in {<<"P1", "P2">>, <<"P1", "P2", "K2">>,
                                         <<"K1", "K1", "K2">>},
                                  n \in {LongLen - 1, LongLen}},
     pageErrors |-> {},
     details |-> [l \in Links |-> {<<>>}],
     detailErrors |-> [l \in Links |-> {}],
     days |-> {1}]

(***************************************************************************)
(* State.                                                                  *)
(***************************************************************************)
VARIABLES
    sources,          \* load_sources()
    env,              \* what the fetches and the clock of this behaviour may give
    disk,             \* state.json: the "seen" mapping it holds
    seen,             \* main's seen
    new_items,        \* main's new_items
    skipped_expired,  \* main's skipped_expired
    pc,               \* where main is
    idx,              \* the position in sources of the for loop
    queue,            \* the candidates[:8] still to visit
    cur,              \* page_fingerprint and candidates_sig of the current source
    today,            \* the latest date datetime.now() gave
    outbox,           \* the texts tg_send was called with in this run
    saves,            \* the calls of save_state in this run
    run,              \* the number of this run
    disk0,            \* state.json as it was when this run loaded it
    log,              \* per source processed in this run, what was done
    lastDetail        \* the detail visit the last step made, if it made one

vars == <<sources, env, disk, seen, new_items, skipped_expired, pc, idx, queue, cur,
          today, outbox, saves, run, disk0, log, lastDetail>>

NoCur == [fp |-> None, sig |-> None]
NoDetail == [made |-> FALSE, ok |-> FALSE, link |-> "", dates |-> <<>>, today |-> 0,
             items0 |-> 0, skipped0 |-> 0]

\* main() after load_sources() and load_state()
Loaded ==
    /\ seen = disk
    /\ disk0 = disk
    /\ new_items = <<>>
    /\ skipped_expired = 0
    /\ pc = "source"
    /\ idx = 1
    /\ queue = <<>>
    /\ cur = NoCur
    /\ today = 1
    /\ outbox = <<>>
    /\ saves = 0
    /\ log = <<>>
    /\ lastDetail = NoDetail

\* the first run, with no state.json yet
Init ==
    /\ sources \in SourceConfigs
    /\ env \in Webs
    /\ run = 1
    /\ disk = <<>>
    /\ Loaded

(***************************************************************************)
(* main(), source by source.                                               *)
(***************************************************************************)
Src == sources[idx]

\* datetime.now(timezone.utc) when the record of the current source is written:
\* the time of the model is the position of main(), run by run and source by source
UtcNow == (run - 1) * (MaxSources + 1) + idx

\* the record written at the end of a source's processing
NewRecord(fp, sig) == [fingerprint |-> fp, candidates_sig |-> sig, checked_at |-> UtcNow]

\* one entry of log: the source, what was fetched, what was done with it (the
\* candidates visited, how many of them were dropped as expired), and the source's
\* record before and after
Entry(outcome, page, cands, after, done) ==
    [name |-> Src.name, url |-> Src.url, outcome |-> outcome,
     fp |-> IF outcome = "error" THEN None ELSE sha(page), page |-> page,
     extracted |-> outcome \in {"same_candidates", "evaluated"},
     candidates |-> cands, visited |-> <<>>, skips |-> 0,
     before |-> Rec(seen, Src.url), after |-> after, done |-> done]

InLoop == pc = "source" /\ idx <= Len(sources)

(***************************************************************************)
(* Faulty variants of the steps of main().  Each departs from the code at  *)
(* one place, and the property named with it tells it from the program.    *)
(***************************************************************************)
\* which C2 excludes: the error of fetch_page(url) is not caught and ends the run
SourceFetchRaises ==
    /\ InLoop
    /\ env.pageErrors # {}
    /\ pc' = "aborted"
    /\ lastDetail' = NoDetail
    /\ UNCHANGED <<sources, env, disk, seen, new_items, skipped_expired, idx, queue, cur,
                   today, outbox, saves, run, disk0, log>>

\* which C3 excludes: a failed fetch leaves a record without fingerprint
SourceFetchFailRecorded ==
    /\ InLoop
    /\ \E e \in env.pageErrors :
         new_items' = Append(new_items, SourceErrorItem(Src, e))
    /\ seen' = [x \in (DOMAIN seen) \cup {Src.url} |->
                  IF x = Src.url THEN NewRecord(None, None) ELSE seen[x]]
    /\ idx' = idx + 1
    /\ log' = Append(log, Entry("error", Page(<<>>, 0), <<>>, Rec(seen', Src.url), TRUE))
    /\ lastDetail' = NoDetail
    /\ UNCHANGED <<sources, env, disk, skipped_expired, pc, queue, cur, today,
                   outbox, saves, run, disk0>>

\* which C1 excludes: an unchanged page has the checked_at of its record renewed
SourceUnchangedRenewed ==
    /\ InLoop
    /\ seen' = [x \in (DOMAIN seen) \cup {Src.url} |->
                  IF x = Src.url THEN [Rec(seen, x) EXCEPT !.checked_at = UtcNow]
                  ELSE seen[x]]
    /\ \E page \in env.pages :
         /\ Rec(seen, Src.url).fingerprint = sha(page)
         /\ log' = Append(log, Entry("unchanged", page, <<>>, Rec(seen', Src.url), TRUE))
    /\ idx' = idx + 1
    /\ lastDetail' = NoDetail
    /\ UNCHANGED <<sources, env, disk, new_items, skipped_expired, pc, queue, cur, today,
                   outbox, saves, run, disk0>>

\* which C4 excludes: with the candidates as recorded the record is not written
SourceSameCandidatesUnrecorded ==
    /\ InLoop
    /\ seen' = seen
    /\ \E page \in env.pages :
         LET candidates == SelectCandidates(extract_links(page))
         IN  /\ Rec(seen, Src.url).fingerprint # sha(page)
             /\ Rec(seen, Src.url).candidates_sig = sha(json_dumps(candidates))
             /\ log' = Append(log, Entry("same_candidates", page, candidates,
                                         Rec(seen', Src.url), TRUE))
    /\ idx' = idx + 1
    /\ lastDetail' = NoDetail
    /\ UNCHANGED <<sources, env, disk, new_items, skipped_expired, pc, queue, cur, today,
                   outbox, saves, run, disk0>>

\* which C10 excludes: a run that ends in the loop writes state.json on its way out
AbortSaving ==
    /\ pc \in {"source", "detail"}
    /\ pc' = "aborted"
    /\ disk' = seen
    /\ saves' = saves + 1
    /\ lastDetail' = NoDetail
    /\ UNCHANGED <<sources, env, seen, new_items, skipped_expired, idx, queue, cur,
                   today, outbox, run, disk0, log>>

\* fetch_page(url) raises: one report item, the record untouched, next source
SourceFetchFail ==
    /\ InLoop
    /\ \E e \in env.pageErrors :
         new_items' = Append(new_items, SourceErrorItem(Src, e))
    /\ seen' = seen
    /\ idx' = idx + 1
    /\ log' = Append(log, Entry("error", Page(<<>>, 0), <<>>, Rec(seen', Src.url), TRUE))
    /\ lastDetail' = NoDetail
    /\ UNCHANGED <<sources, env, disk, skipped_expired, pc, queue, cur, today,
                   outbox, saves, run, disk0>>

\* last_fp == page_fingerprint: continue
SourceUnchanged ==
    /\ InLoop
    /\ seen' = seen
    /\ \E page \in env.pages :
         /\ Rec(seen, Src.url).fingerprint = sha(page)
         /\ log' = Append(log, Entry("unchanged", page, <<>>, Rec(seen', Src.url), TRUE))
    /\ idx' = idx + 1
    /\ lastDetail' = NoDetail
    /\ UNCHANGED <<sources, env, disk, new_items, skipped_expired, pc, queue, cur, today,
                   outbox, saves, run, disk0>>

\* the page changed, last_sig == candidates_sig: only the record is written
SourceSameCandidates ==
    /\ InLoop
    /\ \E page \in env.pages :
         LET candidates == SelectCandidates(extract_links(page))
             candidates_sig == sha(json_dumps(candidates))
         IN  /\ Rec(seen, Src.url).fingerprint # sha(page)
             /\ Rec(seen, Src.url).candidates_sig = candidates_sig
             /\ seen' = Put(seen, Src.url, NewRecord(sha(page), candidates_sig))
             /\ log' = Append(log, Entry("same_candidates", page, candidates,
                                         Rec(seen', Src.url), TRUE))
    /\ idx' = idx + 1
    /\ lastDetail' = NoDetail
    /\ UNCHANGED <<sources, env, disk, new_items, skipped_expired, pc, queue, cur, today,
                   outbox, saves, run, disk0>>

\* the page changed, last_sig != candidates_sig: candidates[:8] are to be visited;
\* with none to visit the record is written at once
SourceNewCandidates ==
    /\ InLoop
    /\ \E page \in env.pages :
         LET candidates == SelectCandidates(extract_links(page))
             candidates_sig == sha(json_dumps(candidates))
             visit == Take(candidates, DetailCap)
         IN  /\ Rec(seen, Src.url).fingerprint # sha(page)
             /\ Rec(seen, Src.url).candidates_sig # candidates_sig
             /\ IF visit = <<>>
                THEN /\ seen' = Put(seen, Src.url,
                                    NewRecord(sha(page), candidates_sig))
                     /\ idx' = idx + 1
                     /\ UNCHANGED <<pc, queue, cur>>
                ELSE /\ pc' = "detail"
                     /\ queue' = visit
                     /\ cur' = [fp |-> sha(page), sig |-> candidates_sig]
                     /\ UNCHANGED <<seen, idx>>
             /\ log' = Append(log, Entry("evaluated", page, candidates,
                                         Rec(seen', Src.url), visit = <<>>))
    /\ lastDetail' = NoDetail
    /\ UNCHANGED <<sources, env, disk, new_items, skipped_expired, today, outbox, saves,
                   run, disk0>>

(***************************************************************************)
(* The candidates of one source, one detail page at a time.                *)
(***************************************************************************)
\* the end of one iteration of "for (t, h) in candidates[:8]": on to the next
\* candidate, and after the last one seen[url] is written and the source is done
NextCandidate ==
    LET n == Len(log)
        visited == Append(log[n].visited, Head(queue))
    IN  /\ queue' = Tail(queue)
        /\ IF Tail(queue) = <<>>
           THEN /\ seen' = Put(seen, Src.url, NewRecord(cur.fp, cur.sig))
                /\ idx' = idx + 1
                /\ pc' = "source"
                /\ cur' = NoCur
           ELSE UNCHANGED <<seen, idx, pc, cur>>
        /\ log' = [log EXCEPT ![n].visited = visited,
                              ![n].skips = @ + (skipped_expired' - skipped_expired),
                              ![n].after = Rec(seen', Src.url),
                              ![n].done = (Tail(queue) = <<>>)]

\* the dates datetime.now() may give: the clock does not run backwards
Dates == {d \in env.days : d >= today}

Visit(ok, dates, now) ==
    [made |-> TRUE, ok |-> ok, link |-> Head(queue), dates |-> dates, today |-> now,
     items0 |-> Len(new_items), skipped0 |-> skipped_expired]

\* fetch_page(h) raises: a report item with the error
DetailFail ==
    /\ pc = "detail"
    /\ \E e \in env.detailErrors[Head(queue)] :
         new_items' = Append(new_items, DetailErrorItem(Src, Head(queue), e))
    /\ lastDetail' = Visit(FALSE, <<>>, today)
    /\ skipped_expired' = skipped_expired
    /\ NextCandidate
    /\ UNCHANGED <<sources, env, disk, today, outbox, saves, run, disk0>>

\* a deadline is found and is_expired(deadline): the candidate is dropped
DetailExpired ==
    /\ pc = "detail"
    /\ \E dates \in env.details[Head(queue)], now \in Dates :
         LET deadline == pick_deadline(dates)
         IN  /\ deadline # None
             /\ is_expired(deadline[1], now)
             /\ today' = now
             /\ lastDetail' = Visit(TRUE, dates, now)
    /\ skipped_expired' = skipped_expired + 1
    /\ NextCandidate
    /\ UNCHANGED <<sources, env, disk, new_items, outbox, saves, run, disk0>>

\* no deadline, or one that is not expired: a report item
DetailReported ==
    /\ pc = "detail"
    /\ \E dates \in env.details[Head(queue)] :
         LET deadline == pick_deadline(dates)
         IN  /\ IF deadline = None
                THEN /\ today' = today
                     /\ lastDetail' = Visit(TRUE, dates, today)
                ELSE \E now \in Dates :
                     /\ ~is_expired(deadline[1], now)
                     /\ today' = now
                     /\ lastDetail' = Visit(TRUE, dates, now)
             /\ new_items' = Append(new_items, DetailItem(Src, Head(queue), deadline))
    /\ skipped_expired' = skipped_expired
    /\ NextCandidate
    /\ UNCHANGED <<sources, env, disk, outbox, saves, run, disk0>>

(***************************************************************************)
(* After the loop: save_state, then the one summary.                       *)
(***************************************************************************)
\* state["seen"] = seen; save_state(state)
Save ==
    /\ pc = "source"
    /\ idx > Len(sources)
    /\ disk' = seen
    /\ saves' = saves + 1
    /\ pc' = "notify"
    /\ lastDetail' = NoDetail
    /\ UNCHANGED <<sources, env, seen, new_items, skipped_expired, idx, queue, cur,
                   today, outbox, run, disk0, log>>

\* tg_send(text): every POST succeeds
NotifyOk ==
    /\ pc = "notify"
    /\ outbox' = Append(outbox, Summary(new_items, skipped_expired))
    /\ pc' = "done"
    /\ UNCHANGED <<sources, env, disk, seen, new_items, skipped_expired, idx, queue, cur,
                   today, saves, run, disk0, log, lastDetail>>

\* tg_send(text): a POST fails and raise_for_status ends the run
NotifyFail ==
    /\ pc = "notify"
    /\ outbox' = Append(outbox, Summary(new_items, skipped_expired))
    /\ pc' = "notify_failed"
    /\ UNCHANGED <<sources, env, disk, seen, new_items, skipped_expired, idx, queue, cur,
                   today, saves, run, disk0, log, lastDetail>>

\* the run ends inside or right after the loop by something "except Exception"
\* does not catch: the process is killed, KeyboardInterrupt, SystemExit
Abort ==
    /\ pc \in {"source", "detail"}
    /\ pc' = "aborted"
    /\ lastDetail' = NoDetail
    /\ UNCHANGED <<sources, env, disk, seen, new_items, skipped_expired, idx, queue, cur,
                   today, outbox, saves, run, disk0, log>>

\* the next run of main(): load_state() reads what the last save left
StartRun ==
    /\ pc \in {"done", "notify_failed", "aborted"}
    /\ run < MaxRuns
    /\ run' = run + 1
    /\ seen' = disk
    /\ disk0' = disk
    /\ new_items' = <<>>
    /\ skipped_expired' = 0
    /\ pc' = "source"
    /\ idx' = 1
    /\ queue' = <<>>
    /\ cur' = NoCur
    /\ outbox' = <<>>
    /\ saves' = 0
    /\ log' = <<>>
    /\ lastDetail' = NoDetail
    /\ UNCHANGED <<sources, env, disk, today>>

Run ==
    \/ SourceFetchFail
    \/ SourceUnchanged
    \/ SourceSameCandidates
    \/ SourceNewCandidates
    \/ DetailFail
    \/ DetailExpired
    \/ DetailReported
    \/ Save
    \/ NotifyOk
    \/ NotifyFail
    \/ StartRun

Next == Run \/ Abort

Spec == Init /\ [][Next]_vars

(***************************************************************************)
(* One run of main() to its end, from any state.json earlier runs can have *)
(* left: a record, for some of the URLs, of a page of the environment.     *)
(***************************************************************************)
\* the record an earlier run wrote for a page
OldRecord(page) ==
    [fingerprint |-> sha(page),
     candidates_sig |-> sha(json_dumps(SelectCandidates(extract_links(page)))),
     checked_at |-> 0]

StateFiles(e) == UNION {[us -> {OldRecord(page) : page \in e.pages}] : us \in SUBSET Urls}

InitRun ==
    /\ sources \in SourceConfigs
    /\ env \in Webs
    /\ run = 1
    /\ disk \in StateFiles(env)
    /\ Loaded

OneRun ==
    \/ SourceFetchFail
    \/ SourceUnchanged
    \/ SourceSameCandidates
    \/ SourceNewCandidates
    \/ DetailFail
    \/ DetailExpired
    \/ DetailReported
    \/ Save
    \/ NotifyOk
    \/ NotifyFail

\* main() runs on: no step of it waits for anything but a bounded request
FairSpec == InitRun /\ [][OneRun]_vars /\ WF_vars(OneRun)

(***************************************************************************)
(* Candidate selection on its own: one source, one run, over pages of      *)
(* every short list of links and over long ones.                           *)
(***************************************************************************)
InitSelect ==
    /\ sources = <<[name |-> 1, url |-> "u1"]>>
    /\ env = SelectWeb
    /\ run = MaxRuns
    /\ disk = <<>>
    /\ Loaded

NextSelect == SourceNewCandidates \/ DetailReported \/ Save \/ NotifyOk

SpecSelect == InitSelect /\ [][NextSelect]_vars

(***************************************************************************)
(* The summary on its own: main() after save_state, with report items of   *)
(* three sources and a count of expired candidates.                        *)
(***************************************************************************)
\* the most candidates that can have been dropped in the runs considered
MaxSkipped == 2

DigestSources ==
    <<[name |-> 1, url |-> "u1"], [name |-> 2, url |-> "u2"], [name |-> 3, url |-> "u3"]>>

\* the report item at place i of a run in which every source gave DetailCap items:
\* source errors, missing deadlines and deadlines in turn, from the off-th on
ItemAt(i, off) ==
    LET s == DigestSources[((((i - 1) \div DetailCap)) % Len(DigestSources)) + 1]
        k == (i + off) % 3
    IN  IF k = 0 THEN DetailErrorItem(s, "K2", "Timeout")
        ELSE IF k = 1 THEN DetailItem(s, "P2", None)
        ELSE DetailItem(s, "K1", <<MaxDay>>)

ItemLists == {[i \in 1..n |-> ItemAt(i, off)] : n \in 0..MaxItems, off \in 0..2}

InitDigest ==
    /\ sources = DigestSources
    /\ env = LongWeb
    /\ run = 1
    /\ disk = <<>>
    /\ seen = <<>>
    /\ new_items \in ItemLists
    /\ skipped_expired \in 0..MaxSkipped
    /\ pc = "notify"
    /\ idx = Len(DigestSources) + 1
    /\ queue = <<>>
    /\ cur = NoCur
    /\ today = 1
    /\ outbox = <<>>
    /\ saves = 1
    /\ disk0 = <<>>
    /\ log = <<>>
    /\ lastDetail = NoDetail

NextDigest == NotifyOk \/ NotifyFail

SpecDigest == InitDigest /\ [][NextDigest]_vars

(***************************************************************************)
(* What the claims speak of.                                               *)
(***************************************************************************)
\* the report items of this run that carry the name of log entry e's source
ItemsOf(e) == {j \in 1..Len(new_items) : new_items[j].src = e.name}

\* the page of log entry e was fetched
Fetched(e) == e.outcome # "error"

\* the signature of the candidates selected from the page of log entry e
SigOf(e) == sha(json_dumps(e.candidates))

\* no other configured source names the URL of log entry e
OnlySourceOf(e) == Cardinality({i \in 1..Len(sources) : sources[i].url = e.url}) = 1

\* the loop over the sources is over and main() went on
LoopDone == pc \in {"notify", "done", "notify_failed"}

\* log entry e is of a source whose fetched page hashes to the recorded fingerprint
SamePage(e) == Fetched(e) /\ e.fp = e.before.fingerprint

\* C1 as amended: a source whose fetched page hashes to the fingerprint recorded
\* for its URL adds no report item, has no links extracted and no detail page
\* fetched, and its processing leaves the record as it found it; when no other
\* source is configured with the same URL the record is as it was before the run.
C1_UnchangedSourceLeavesRecord ==
    \A k \in 1..Len(log) :
        SamePage(log[k]) =>
            /\ ItemsOf(log[k]) = {}
            /\ ~log[k].extracted
            /\ log[k].visited = <<>>
            /\ log[k].after = log[k].before
            /\ OnlySourceOf(log[k]) => Rec(seen, log[k].url) = Rec(disk0, log[k].url)

\* C1 as stated, for a source whose fetched page hashes to the fingerprint of the
\* record the run loaded for its URL: no report item, no link extraction, no detail
\* fetch, and the run leaves that record exactly as it was before the run.
C1_AsStated ==
    \A k \in 1..Len(log) :
        (SamePage(log[k]) /\ log[k].before = Rec(disk0, log[k].url)) =>
            /\ ItemsOf(log[k]) = {}
            /\ ~log[k].extracted
            /\ log[k].visited = <<>>
            /\ Rec(seen, log[k].url) = Rec(disk0, log[k].url)

\* a second run finds the page of its one source as the first run recorded it
C1_Witness ==
    /\ run = 2
    /\ LoopDone
    /\ Len(sources) = 1
    /\ SamePage(log[1])
    /\ log[1].before # NoRec

\* C3: a source whose page fetch fails gets exactly one report item, which names
\* the source's URL and the error; its record is neither created nor changed; the
\* loop goes on with the next source, so that in the end every configured source
\* was processed, in the configured order.
C3_SourceFetchFailure ==
    /\ \A k \in 1..Len(log) :
           /\ log[k].name = sources[k].name
           /\ log[k].url = sources[k].url
           /\ ~Fetched(log[k]) =>
                /\ Cardinality(ItemsOf(log[k])) = 1
                /\ \A j \in ItemsOf(log[k]) :
                       /\ new_items[j].kind = "source_error"
                       /\ new_items[j].link = log[k].url
                       /\ new_items[j].error \in env.pageErrors
                /\ log[k].after = log[k].before
                /\ OnlySourceOf(log[k]) => Rec(seen, log[k].url) = Rec(disk0, log[k].url)
                /\ log[k].done
                /\ idx > k
    /\ pc = "source" => Len(log) = idx - 1
    /\ LoopDone => Len(log) = Len(sources)

\* the fetch of the first source's page failed and the second source was processed
C3_Witness ==
    /\ LoopDone
    /\ Len(log) = 2
    /\ ~Fetched(log[1])
    /\ Fetched(log[2])
    /\ log[2].after # log[2].before

\* C4: a source whose page fingerprint differs from the recorded one while the
\* signature of its selected candidates equals the recorded one has no detail page
\* fetched and no report item, and its record is overwritten with the new page
\* fingerprint, the same signature and a new checked_at.
C4_SameCandidates ==
    \A k \in 1..Len(log) :
        LET e == log[k]
        IN  (/\ Fetched(e)
             /\ e.fp # e.before.fingerprint
             /\ sha(json_dumps(SelectCandidates(extract_links(e.page))))
                    = e.before.candidates_sig) =>
                /\ e.visited = <<>>
                /\ ItemsOf(e) = {}
                /\ e.skips = 0
                /\ e.after.fingerprint = sha(e.page)
                /\ e.after.candidates_sig = e.before.candidates_sig
                /\ e.after.checked_at > e.before.checked_at
                /\ e.done

\* a page that changed and still has the candidates recorded for it
C4_Witness ==
    \E k \in 1..Len(log) :
        /\ log[k].outcome = "same_candidates"
        /\ log[k].before.fingerprint # log[k].after.fingerprint
        /\ log[k].before.candidates_sig = SigOf(log[k])

\* the dates of the last detail visit, as a set
LastDates == {lastDetail.dates[i] : i \in 1..Len(lastDetail.dates)}

\* the last detail visit found a deadline d: a date of the page no other exceeds
LastDeadlineIs(d) == d \in LastDates /\ \A x \in LastDates : x <= d

\* the last detail visit found a deadline strictly earlier than the day it was made
LastExpired == \E d \in LastDates : LastDeadlineIs(d) /\ d < lastDetail.today

\* C5: a candidate whose detail page was fetched is dropped, and counted once as
\* expired, exactly when the latest date of the page is strictly earlier than
\* today; otherwise (the latest date is today or later, or the page has no date)
\* it gives exactly one report item, with that date or marked as without deadline,
\* and the count stays.
C5_DeadlineAndExpiry ==
    (lastDetail.made /\ lastDetail.ok) =>
        LET items == Len(new_items) - lastDetail.items0
            skips == skipped_expired - lastDetail.skipped0
            item == new_items[Len(new_items)]
        IN  /\ LastExpired <=> (skips = 1 /\ items = 0)
            /\ ~LastExpired =>
                 /\ skips = 0
                 /\ items = 1
                 /\ item.link = lastDetail.link
                 /\ item.src = log[Len(log)].name
                 /\ LastDates = {} => item.kind = "no_deadline" /\ item.deadline = None
                 /\ \A d \in LastDates :
                        LastDeadlineIs(d) => item.kind = "deadline" /\ item.deadline = <<d>>

\* a detail page with two dates, the later of them today: the candidate is reported
C5_Witness ==
    /\ lastDetail.made
    /\ lastDetail.ok
    /\ Cardinality(LastDates) = 2
    /\ LastDeadlineIs(lastDetail.today)
    /\ Len(new_items) = lastDetail.items0 + 1
    /\ skipped_expired = lastDetail.skipped0 /\ skipped_expired > 0

\* records are never removed: every URL with a record when the run began has one
\* in main's seen and in state.json
NeverRemoved == DOMAIN disk0 \subseteq DOMAIN seen /\ DOMAIN disk0 \subseteq DOMAIN disk

\* the record the source of log entry e is given when its processing ends
Overwritten(e) ==
    /\ e.after.fingerprint = e.fp
    /\ e.after.candidates_sig = SigOf(e)
    /\ e.after.checked_at > e.before.checked_at

\* C8 as amended: the record of a URL is created by the first check that fetches
\* its page, is overwritten (fingerprint, candidates_sig, checked_at) by every later
\* check that fetches the page and finds its fingerprint different from the
\* recorded one, is left as it is by a check that finds the fingerprint unchanged,
\* and is never removed.
C8_RecordLifecycle ==
    /\ \A k \in 1..Len(log) :
           (Fetched(log[k]) /\ log[k].done) =>
               /\ log[k].before = NoRec => log[k].after # NoRec
               /\ log[k].fp # log[k].before.fingerprint => Overwritten(log[k])
               /\ log[k].fp = log[k].before.fingerprint => log[k].after = log[k].before
               /\ log[k].url \in DOMAIN seen
    /\ NeverRemoved

\* C8 as stated: created by the first successful check, overwritten by every later
\* successful check, never removed.
C8_AsStated ==
    /\ \A k \in 1..Len(log) :
           (Fetched(log[k]) /\ log[k].done) =>
               /\ log[k].before = NoRec => log[k].after # NoRec
               /\ log[k].before # NoRec => Overwritten(log[k])
    /\ NeverRemoved

\* a later run overwrites the record of one URL and keeps that of the other
C8_Witness ==
    /\ run = 2
    /\ LoopDone
    /\ Len(log) = 2
    /\ log[1].before # NoRec /\ log[1].fp # log[1].before.fingerprint
    /\ log[1].after # log[1].before
    /\ ~Fetched(log[2]) /\ log[2].url # log[1].url /\ log[2].url \in DOMAIN seen

\* C9: a source whose page fingerprint and candidate signature both differ from
\* its record has the first min(8, n) of its n candidates visited, in order, one
\* at a time; each visit gives one report item or one expired skip, a failed detail
\* fetch included, so that at the end items plus skips of the source are min(8, n)
\* and the record is written.
C9_VisitsFirstEight ==
    /\ \A k \in 1..Len(log) :
           LET e == log[k]
               n == Len(e.candidates)
               m == IF n < 8 THEN n ELSE 8
           IN  (/\ Fetched(e)
                /\ e.fp # e.before.fingerprint
                /\ SigOf(e) # e.before.candidates_sig) =>
                   /\ e.candidates = SelectCandidates(extract_links(e.page))
                   /\ Len(e.visited) <= m
                   /\ e.visited = SubSeq(e.candidates, 1, Len(e.visited))
                   /\ Cardinality(ItemsOf(e)) + e.skips = Len(e.visited)
                   /\ e.done <=> Len(e.visited) = m
                   /\ e.done => Overwritten(e) /\ e.after # e.before
                   /\ ~e.done => k = Len(log) /\ pc \in {"detail", "aborted"}
    /\ lastDetail.made =>
           (Len(new_items) - lastDetail.items0)
               + (skipped_expired - lastDetail.skipped0) = 1
    /\ (lastDetail.made /\ ~lastDetail.ok) =>
           /\ new_items[Len(new_items)].kind = "detail_error"
           /\ new_items[Len(new_items)].link = lastDetail.link

\* a source with more than eight candidates, all of the first eight visited, a
\* failed detail fetch among them followed by further visits
C9_Witness ==
    \E k \in 1..Len(log) :
        /\ log[k].done
        /\ Len(log[k].candidates) > 8
        /\ Len(log[k].visited) = 8
        /\ \E i, j \in ItemsOf(log[k]) :
               i < j /\ new_items[i].kind = "detail_error" /\ new_items[j].kind = "deadline"

\* C10: state.json is written once per run, after the last source is processed
\* and before tg_send is called; while sources are processed, and in a run that
\* ends there, state.json is as the run found it; a failed notification finds the
\* run's records already written.
C10_PersistOnceAtEnd ==
    /\ saves <= 1
    /\ pc \in {"source", "detail", "aborted"} => saves = 0 /\ disk = disk0
    /\ LoopDone => saves = 1 /\ disk = seen /\ Len(log) = Len(sources)
    /\ (LoopDone /\ \A k \in 1..Len(log) : log[k].done) => \A k \in 1..Len(log) :
           OnlySourceOf(log[k]) => Rec(disk, log[k].url) = log[k].after
    /\ outbox # <<>> => saves = 1
    /\ pc = "notify" => outbox = <<>>

\* the notification fails after records new in this run were written to state.json
C10_Witness ==
    /\ pc = "notify_failed"
    /\ disk # disk0
    /\ saves = 1

\* C2: a run sends at most one summary; it is never ended by a failed fetch; and
\* every run, whatever fetches fail in it, comes to call tg_send exactly once.
C2_ExactlyOneSummary ==
    /\ [](Len(outbox) <= 1)
    /\ [](pc # "aborted")
    /\ [](pc \in {"done", "notify_failed"} <=> Len(outbox) = 1)
    /\ (pc = "source") ~> (Len(outbox) = 1)

\* a run with a failed source fetch and a failed detail fetch has sent its summary
C2_Witness ==
    /\ pc = "done"
    /\ Len(outbox) = 1
    /\ \E j \in 1..Len(new_items) : new_items[j].kind = "source_error"
    /\ \E j \in 1..Len(new_items) : new_items[j].kind = "detail_error"

(***************************************************************************)
(* Candidate selection, said without lower() and SelectSeq.                *)
(***************************************************************************)
\* a and b are the same letter, in either case
SameLetter(a, b) ==
    \/ a = b
    \/ \E i \in 1..Len(UpperCase) : {a, b} = {UpperCase[i], LowerCase[i]}

\* the text cs holds keyword k, whatever the case of its letters
HoldsKeyword(cs, k) ==
    \E i \in 0..(Len(cs) - Len(k)) : \A j \in 1..Len(k) : SameLetter(cs[i + j], k[j])

\* the links whose label or URL holds a keyword
Hits == {l \in Links : \E k \in keywords :
                           HoldsKeyword(LinkText(l), k) \/ HoldsKeyword(LinkHref(l), k)}

\* the places of links that hold a hit
HitPlaces(links) == {i \in 1..Len(links) : links[i] \in Hits}

\* C6: with at least one link whose label or URL holds a keyword, in any case of
\* letters, the candidates are those links and no others, each as often as it is
\* listed and in the order listed; with none, they are the first 10 links, in
\* the order listed.
C6_CandidateSelection ==
    \A k \in 1..Len(log) :
        log[k].extracted =>
            LET links == extract_links(log[k].page)
                c == log[k].candidates
                hp == HitPlaces(links)
            IN  /\ hp # {} =>
                     /\ Len(c) = Cardinality(hp)
                     /\ \A i \in hp :
                            c[Cardinality({x \in hp : x <= i})] = links[i]
                /\ hp = {} =>
                     /\ Len(c) = (IF Len(links) < 10 THEN Len(links) ELSE 10)
                     /\ \A i \in 1..Len(c) : c[i] = links[i]

\* a page that lists a keyword link twice around a plain one: both are kept, in
\* place, the plain one is not
C6_Witness ==
    \E k \in 1..Len(log) :
        /\ extract_links(log[k].page) = <<"K1", "P1", "K1">>
        /\ log[k].candidates = <<"K1", "K1">>
        /\ log[k].done

\* C7: the one summary is the digest exactly when the run has report items, the
\* heartbeat otherwise; the digest lists the first 20 items at most, in the order
\* they were added; the expired count is in the summary exactly when it is not 0.
C7_SummaryContent ==
    /\ Len(outbox) <= 1
    /\ \A i \in 1..Len(outbox) :
           LET msg == outbox[i]
           IN  /\ msg.kind \in {"digest", "heartbeat"}
               /\ msg.kind = "digest" <=> Len(new_items) > 0
               /\ msg.kind = "heartbeat" => msg.lines = <<>>
               /\ msg.kind = "digest" =>
                    /\ Len(msg.lines) = (IF Len(new_items) < 20 THEN Len(new_items) ELSE 20)
                    /\ \A j \in 1..Len(msg.lines) : msg.lines[j] = new_items[j]
               /\ msg.expired # <<>> <=> skipped_expired # 0
               /\ msg.expired # <<>> => msg.expired = <<skipped_expired>>

\* a digest of a run with more than 20 report items and expired candidates
C7_Witness ==
    /\ Len(outbox) = 1
    /\ outbox[1].kind = "digest"
    /\ Len(new_items) > 20
    /\ Len(outbox[1].lines) = 20
    /\ outbox[1].expired # <<>>

====
